---- MODULE Spec2Model ----
(***************************************************************************)
(* Last-working-day calculator (app.py).                                   *)
(*                                                                         *)
(* Strings whose characters the program inspects (country names, the      *)
(* custom-holiday text) are sequences of one-character strings.  Dates are *)
(* proleptic Gregorian ordinals (date.toordinal()); a calendar date is     *)
(* turned into its ordinal by Date(y, m, d), computed as datetime does.    *)
(***************************************************************************)
EXTENDS Integers, Sequences, FiniteSets, TLC

VARIABLES
    pc,                     \* position in the script / in the function called
    resignation_date,       \* argument: ordinal of the resignation date
    notice_period,          \* argument: days of notice
    country_code,           \* argument: the string handed to the calculation
    custom_holidays,        \* argument: list of dates
    company_rule,           \* argument: the rule string
    provider,               \* what the holiday provider answers to the request
    request_year,           \* the year the provider was asked for (0: not asked)
    weekend_days,           \* local of calculate_last_working_day
    tentative_last_day,     \* local of calculate_last_working_day
    all_holidays,           \* local of calculate_last_working_day
    last_working_day,       \* the value returned (0: nothing returned yet)
    country,                \* form: the country selected
    custom_holidays_input,  \* form: the custom-holiday text
    emailing,               \* form: <<send_email_option, recipient_email>>
    messages,               \* what the page shows, in order: <<level, text, date>>
    pdf_file,               \* the document: "none", "generated", "failed"
    smtp                    \* the mail relay: "unused", "sent", "failed"

vars == <<pc, resignation_date, notice_period, country_code, custom_holidays,
          company_rule, provider, request_year, weekend_days,
          tentative_last_day, all_holidays, last_working_day, country,
          custom_holidays_input, emailing, messages, pdf_file,
          smtp>>

(***************************************************************************)
(* Bounds of the model.                                                    *)
(***************************************************************************)
MaxNotice == 5
HolidaySpan == 3
MaxCustom == 2
MaxOtherLen == 2

(***************************************************************************)
(* Characters and str.lower().                                             *)
(***************************************************************************)
UpperLetters == <<"A","B","C","D","E","F","G","H","I","J","K","L","M",
                  "N","O","P","Q","R","S","T","U","V","W","X","Y","Z">>
LowerLetters == <<"a","b","c","d","e","f","g","h","i","j","k","l","m",
                  "n","o","p","q","r","s","t","u","v","w","x","y","z">>

\* Variant: the case of the character is kept (no .lower()).
LowerCharKeep(c) == c

LowerChar(c) ==
    IF \E i \in DOMAIN UpperLetters : UpperLetters[i] = c
    THEN LowerLetters[CHOOSE i \in DOMAIN UpperLetters : UpperLetters[i] = c]
    ELSE c

Lower(s) == [i \in 1..Len(s) |-> LowerChar(s[i])]

(***************************************************************************)
(* get_weekend_days: weekday indices with Monday = 0.                      *)
(***************************************************************************)
SatSunNames == { <<"i","n","d","i","a">>, <<"u","s","a">>, <<"u","k">>,
                 <<"c","a","n","a","d","a">>,
                 <<"a","u","s","t","r","a","l","i","a">>,
                 <<"s","i","n","g","a","p","o","r","e">> }
FriSatNames == { <<"u","a","e">>,
                 <<"s","a","u","d","i"," ","a","r","a","b","i","a">>,
                 <<"q","a","t","a","r">> }

GetWeekendDays(c) ==
    LET lc == Lower(c) IN
    IF lc \in SatSunNames THEN <<5, 6>>
    ELSE IF lc \in FriSatNames THEN <<4, 5>>
    ELSE <<5, 6>>

(***************************************************************************)
(* datetime: ordinals, weekday(), year, + timedelta(days = n).             *)
(***************************************************************************)
IsLeap(y) == y % 4 = 0 /\ (y % 100 # 0 \/ y % 400 = 0)

DaysInMonth(y, m) ==
    IF m = 2 /\ IsLeap(y) THEN 29
    ELSE <<31, 28, 31, 30, 31, 30, 31, 31, 30, 31, 30, 31>>[m]

DaysBeforeYear(y) ==
    LET k == y - 1 IN k * 365 + (k \div 4) - (k \div 100) + (k \div 400)

DaysBeforeMonth(y, m) ==
    <<0, 31, 59, 90, 120, 151, 181, 212, 243, 273, 304, 334>>[m]
        + (IF m > 2 /\ IsLeap(y) THEN 1 ELSE 0)

Date(y, m, d) == DaysBeforeYear(y) + DaysBeforeMonth(y, m) + d

Year(n) ==
    LET n0   == n - 1
        n400 == n0 \div 146097
        r400 == n0 % 146097
        n100 == r400 \div 36524
        r100 == r400 % 36524
        n4   == r100 \div 1461
        r4   == r100 % 1461
        n1   == r4 \div 365
        y    == n400 * 400 + 1 + n100 * 100 + n4 * 4 + n1
    IN  IF n1 = 4 \/ n100 = 4 THEN y - 1 ELSE y

\* Variant: weekday indices counted from Sunday = 0.
WeekdayFromSunday(n) == n % 7

Weekday(n) == (n + 6) % 7

\* Variant: the timedelta is subtracted.
PlusDaysBackwards(n, k) == n - k

PlusDays(n, k) == n + k

Contains(list, x) == \E i \in DOMAIN list : list[i] = x

(***************************************************************************)
(* fetch_public_holidays.  The provider's answer is the environment's:     *)
(*   kind "network_error"        requests.get raises                       *)
(*   kind "not_json"             response.json() raises                    *)
(*   kind "json_not_object"      the body is JSON but no object (.get)     *)
(*   kind "no_response_key"      an object without "response"              *)
(*   kind "response_not_object"  "response" is a list, a string, null      *)
(*   kind "no_holidays_key"      "response" is an object without "holidays"*)
(*   kind "holidays"             "holidays" is a list of records; a record *)
(*                               is the date its ["date"]["iso"] parses to,*)
(*                               or 0 when that lookup or parse raises     *)
(* The result is the list returned and whether st.warning was called.      *)
(***************************************************************************)
RaisingKinds == {"network_error", "not_json", "json_not_object",
                 "response_not_object"}
SilentKinds == {"no_response_key", "no_holidays_key"}

FetchPublicHolidays(p) ==
    IF p.kind \in RaisingKinds THEN [list |-> <<>>, warned |-> TRUE]
    ELSE IF p.kind \in SilentKinds THEN [list |-> <<>>, warned |-> FALSE]
    ELSE IF \E i \in DOMAIN p.records : p.records[i] = 0
         THEN [list |-> <<>>, warned |-> TRUE]
         ELSE [list |-> p.records, warned |-> FALSE]

(***************************************************************************)
(* calculate_last_working_day, one action per step of its body.            *)
(***************************************************************************)
\* Variant: the holiday list is not consulted.
LoopConditionWeekendOnly(t, wk, hol) == Contains(wk, Weekday(t))

LoopCondition(t, wk, hol) == Contains(wk, Weekday(t)) \/ Contains(hol, t)

\* Variant: the rule is ignored.
AdvancesAlways(rule, t, wk) == TRUE

\* Variant: the two branches of the rule are exchanged.
AdvancesOnHolidayOnly(rule, t, wk) ==
    IF rule = "exclude_weekends_only" THEN ~Contains(wk, Weekday(t)) ELSE TRUE

\* The branch of the loop body taken: TRUE advances, FALSE breaks.
Advances(rule, t, wk) ==
    IF rule = "exclude_weekends_only" THEN Contains(wk, Weekday(t)) ELSE TRUE

UIVars == <<country, custom_holidays_input, emailing, pdf_file, smtp>>
ArgVars == <<resignation_date, notice_period, country_code, custom_holidays,
             company_rule, provider>>

\* Lines 44-46: the weekend profile, the tentative day, the holiday list.
Enter ==
    /\ pc = "call"
    /\ LET t == PlusDays(resignation_date, notice_period)
           f == FetchPublicHolidays(provider)
       IN  /\ weekend_days' = GetWeekendDays(country_code)
           /\ tentative_last_day' = t
           /\ request_year' = Year(t)
           /\ all_holidays' = f.list \o custom_holidays
           /\ messages' = IF f.warned
                           THEN Append(messages, <<"warning", "fetch", 0>>)
                           ELSE messages
    /\ pc' = "loop"
    /\ UNCHANGED <<ArgVars, UIVars, last_working_day>>

\* Lines 48-55: one iteration that moves the tentative day on.
Advance ==
    /\ pc = "loop"
    /\ LoopCondition(tentative_last_day, weekend_days, all_holidays)
    /\ Advances(company_rule, tentative_last_day, weekend_days)
    /\ tentative_last_day' = PlusDays(tentative_last_day, 1)
    /\ UNCHANGED <<pc, ArgVars, UIVars, request_year, weekend_days,
                   all_holidays, last_working_day, messages>>

\* Lines 48, 53, 56: the loop condition is false, or the loop breaks; return.
Return ==
    /\ pc = "loop"
    /\ \/ ~LoopCondition(tentative_last_day, weekend_days, all_holidays)
       \/ ~Advances(company_rule, tentative_last_day, weekend_days)
    /\ last_working_day' = tentative_last_day
    /\ pc' = "returned"
    /\ UNCHANGED <<ArgVars, UIVars, request_year, weekend_days,
                   tentative_last_day, all_holidays, messages>>

(***************************************************************************)
(* SpecFn: calculate_last_working_day called directly on bounded inputs.   *)
(***************************************************************************)
\* A Monday, and a Saturday whose notice period crosses the end of the year.
ResignationDates == {Date(2024, 1, 1), Date(2024, 12, 28)}
NoticePeriods == 0..MaxNotice
Rules == {"include_weekends", "exclude_weekends_only", "other"}
FnCountries == { <<"U","S","A">>, <<"U","A","E">> }

\* Ascending lists of the dates of a set (the provider's order is its own).
RECURSIVE ListOf(_)
ListOf(S) ==
    IF S = {} THEN <<>>
    ELSE LET m == CHOOSE x \in S : \A z \in S : x <= z
         IN  <<m>> \o ListOf(S \ {m})

HolidayWindow(t) == t..(t + HolidaySpan - 1)

SeqsUpTo(S, n) == UNION {[1..k -> S] : k \in 0..n}

ProviderAnswers(t) ==
    {[kind |-> k, records |-> <<>>] : k \in RaisingKinds \cup SilentKinds}
    \cup {[kind |-> "holidays", records |-> ListOf(S)] :
              S \in SUBSET HolidayWindow(t)}
    \cup {[kind |-> "holidays", records |-> <<t, 0>>]}

UIIdle ==
    /\ country = "none"
    /\ custom_holidays_input = <<>>
    /\ emailing = <<FALSE, "">>
    /\ pdf_file = "none"
    /\ smtp = "unused"

InitFn ==
    /\ pc = "call"
    /\ resignation_date \in ResignationDates
    /\ notice_period \in NoticePeriods
    /\ country_code \in FnCountries
    /\ company_rule \in Rules
    /\ provider \in ProviderAnswers(resignation_date + notice_period)
    /\ custom_holidays \in
           SeqsUpTo(HolidayWindow(resignation_date + notice_period), MaxCustom)
    /\ request_year = 0
    /\ weekend_days = <<>>
    /\ tentative_last_day = 0
    /\ all_holidays = <<>>
    /\ last_working_day = 0
    /\ messages = <<>>
    /\ UIIdle

NextFn == Enter \/ Advance \/ Return

SpecFn == InitFn /\ [][NextFn]_vars

\* The loop is the only code running: a step that can be taken is taken.
FairSpecFn == SpecFn /\ WF_vars(NextFn)
(***************************************************************************)
(* Properties of calculate_last_working_day (SpecFn, FairSpecFn).          *)
(***************************************************************************)
Tentative0 == resignation_date + notice_period
IsWeekendDay(d) == Contains(GetWeekendDays(country_code), (d + 6) % 7)
Returned == pc = "returned"

\* C1: the date returned is on or after resignation date + notice period,
\* for every rule, country and holiday list; the loop never moves the
\* tentative day back.
C1_ResultNotBeforeTentative ==
    /\ pc \in {"loop", "returned"} => tentative_last_day >= Tentative0
    /\ Returned => last_working_day >= Tentative0

C1_Witness ==
    /\ Returned
    /\ notice_period = 0
    /\ last_working_day > resignation_date
    /\ company_rule = "exclude_weekends_only"

\* C2: under every rule other than exclude_weekends_only the calculation
\* terminates, and the date returned is neither a weekend day of the
\* country's profile nor a member of fetched + custom holidays.
C2_IncludeRuleSkipsAll ==
    /\ [](Returned /\ company_rule # "exclude_weekends_only"
            => /\ ~IsWeekendDay(last_working_day)
               /\ ~Contains(FetchPublicHolidays(provider).list,
                             last_working_day)
               /\ ~Contains(custom_holidays, last_working_day))
    /\ (pc = "call" /\ company_rule # "exclude_weekends_only") ~> Returned

C2_Witness ==
    /\ Returned
    /\ company_rule = "other"
    /\ Contains(FetchPublicHolidays(provider).list, Tentative0)
    /\ Contains(custom_holidays, Tentative0 + 1)
    /\ last_working_day > Tentative0 + 1

\* C3: under exclude_weekends_only the date returned is never a weekend
\* day, and a tentative day that is a holiday but no weekend day ends the
\* loop at once and is itself returned.
C3_ExcludeRuleStopsOnHoliday ==
    /\ [](Returned /\ company_rule = "exclude_weekends_only"
            => ~IsWeekendDay(last_working_day))
    /\ [][ ( /\ pc = "loop"
             /\ company_rule = "exclude_weekends_only"
             /\ Contains(all_holidays, tentative_last_day)
             /\ ~IsWeekendDay(tentative_last_day) )
           => ( /\ pc' = "returned"
                /\ last_working_day' = tentative_last_day ) ]_vars

C3_Witness ==
    /\ Returned
    /\ company_rule = "exclude_weekends_only"
    /\ Contains(all_holidays, last_working_day)
    /\ last_working_day > Tentative0

\* C9: from 2024-01-01 (a Monday) with notice 5, no holidays and rule
\* include_weekends, "USA" gives 2024-01-08 and "UAE" gives 2024-01-07.
C9_Scenario ==
    ( /\ Returned
      /\ resignation_date = Date(2024, 1, 1)
      /\ notice_period = 5
      /\ FetchPublicHolidays(provider).list = <<>>
      /\ custom_holidays = <<>>
      /\ company_rule = "include_weekends" )
    => /\ country_code = <<"U","S","A">> => last_working_day = Date(2024, 1, 8)
       /\ country_code = <<"U","A","E">> => last_working_day = Date(2024, 1, 7)

C9_Witness ==
    /\ Returned
    /\ resignation_date = Date(2024, 1, 1)
    /\ notice_period = 5
    /\ provider.kind = "holidays" /\ provider.records = <<>>
    /\ custom_holidays = <<>>
    /\ company_rule = "include_weekends"
    /\ country_code = <<"U","A","E">>
    /\ last_working_day = resignation_date + 6

\* C10: under exclude_weekends_only the date returned is the first day on
\* or after resignation date + notice period that is no weekend day,
\* whatever the fetched and custom holidays are.
FirstNonWeekendDay(t) ==
    CHOOSE d \in t..(t + 6) :
        /\ ~IsWeekendDay(d)
        /\ \A e \in t..(d - 1) : IsWeekendDay(e)

C10_ExcludeRuleIgnoresHolidays ==
    Returned /\ company_rule = "exclude_weekends_only"
        => last_working_day = FirstNonWeekendDay(Tentative0)

C10_Witness ==
    /\ Returned
    /\ company_rule = "exclude_weekends_only"
    /\ Contains(custom_holidays, last_working_day)
    /\ Contains(FetchPublicHolidays(provider).list, last_working_day + 1)
    /\ last_working_day = Tentative0
(***************************************************************************)
(* SpecWeekend: get_weekend_days called on its own, on the known names in  *)
(* every mix of upper and lower case and on other strings.                 *)
(***************************************************************************)
UpperChar(c) ==
    IF \E i \in DOMAIN LowerLetters : LowerLetters[i] = c
    THEN UpperLetters[CHOOSE i \in DOMAIN LowerLetters : LowerLetters[i] = c]
    ELSE c

CaseVariants(name) ==
    {[i \in 1..Len(name) |-> IF i \in U THEN UpperChar(name[i]) ELSE name[i]] :
        U \in SUBSET (1..Len(name))}

OtherChars == {"u", "A", "e", "k", " "}

CountryInputs ==
    UNION {CaseVariants(n) : n \in SatSunNames \cup FriSatNames}
    \cup SeqsUpTo(OtherChars, MaxOtherLen)
    \cup { <<"O","t","h","e","r">>, <<"A","E">>, <<"U","S">>, <<"I","N">>,
           <<"u","a","e"," ">>, <<" ","U","K">>, <<"Q","a","t","a","r","i">> }

ArgsIdle ==
    /\ resignation_date = 0
    /\ notice_period = 0
    /\ custom_holidays = <<>>
    /\ company_rule = "include_weekends"
    /\ provider = [kind |-> "holidays", records |-> <<>>]

LocalsIdle ==
    /\ request_year = 0
    /\ weekend_days = <<>>
    /\ tentative_last_day = 0
    /\ all_holidays = <<>>
    /\ last_working_day = 0
    /\ messages = <<>>

InitWeekend ==
    /\ pc = "weekend_call"
    /\ country_code \in CountryInputs
    /\ ArgsIdle
    /\ LocalsIdle
    /\ UIIdle

CallGetWeekendDays ==
    /\ pc = "weekend_call"
    /\ weekend_days' = GetWeekendDays(country_code)
    /\ pc' = "weekend_done"
    /\ UNCHANGED <<ArgVars, UIVars, request_year, tentative_last_day,
                   all_holidays, last_working_day, messages>>

NextWeekend == CallGetWeekendDays

SpecWeekend == InitWeekend /\ [][NextWeekend]_vars

\* Two strings that differ at most in the case of their letters.
SameIgnoringCase(a, b) ==
    /\ Len(a) = Len(b)
    /\ \A i \in 1..Len(a) : UpperChar(a[i]) = UpperChar(b[i])

SatSunGroup == { <<"I","n","d","i","a">>, <<"U","S","A">>, <<"U","K">>,
                 <<"C","a","n","a","d","a">>,
                 <<"A","u","s","t","r","a","l","i","a">>,
                 <<"S","i","n","g","a","p","o","r","e">> }
FriSatGroup == { <<"U","A","E">>,
                 <<"S","a","u","d","i"," ","A","r","a","b","i","a">>,
                 <<"Q","a","t","a","r">> }

Elements(list) == {list[i] : i \in DOMAIN list}

\* C4: get_weekend_days returns a value for every string: exactly {5,6} for
\* the six Saturday/Sunday countries, exactly {4,5} for UAE, Saudi Arabia
\* and Qatar, compared without regard to case, and {5,6} for anything else.
C4_WeekendProfile ==
    pc = "weekend_done" =>
        /\ (\E n \in SatSunGroup : SameIgnoringCase(country_code, n))
               => Elements(weekend_days) = {5, 6}
        /\ (\E n \in FriSatGroup : SameIgnoringCase(country_code, n))
               => Elements(weekend_days) = {4, 5}
        /\ (\A n \in SatSunGroup \cup FriSatGroup :
                ~SameIgnoringCase(country_code, n))
               => Elements(weekend_days) = {5, 6}

C4_Witness ==
    /\ pc = "weekend_done"
    /\ country_code = <<"s","A","u","D","i"," ","a","R","a","B","i","A">>
    /\ weekend_days = <<4, 5>>
(***************************************************************************)
(* The custom-holiday text: str.split(","), str.strip(), and               *)
(* datetime.strptime(entry, "%Y-%m-%d").date().                            *)
(***************************************************************************)
DigitChars == <<"0", "1", "2", "3", "4", "5", "6", "7", "8", "9">>
IsDigit(c) == \E i \in DOMAIN DigitChars : DigitChars[i] = c
DigitValue(c) == (CHOOSE i \in DOMAIN DigitChars : DigitChars[i] = c) - 1
Whitespace == {" ", "\t", "\n"}

RECURSIVE Number(_)
Number(t) ==
    IF t = <<>> THEN 0
    ELSE 10 * Number(SubSeq(t, 1, Len(t) - 1)) + DigitValue(t[Len(t)])

RECURSIVE Split(_, _)
Split(s, sep) ==
    IF \A i \in 1..Len(s) : s[i] # sep THEN <<s>>
    ELSE LET i == CHOOSE k \in 1..Len(s) :
                      s[k] = sep /\ \A j \in 1..(k - 1) : s[j] # sep
         IN  <<SubSeq(s, 1, i - 1)>> \o Split(SubSeq(s, i + 1, Len(s)), sep)

Strip(s) ==
    LET keep == {i \in 1..Len(s) : s[i] \notin Whitespace} IN
    IF keep = {} THEN <<>>
    ELSE SubSeq(s, CHOOSE i \in keep : \A j \in keep : i <= j,
                   CHOOSE i \in keep : \A j \in keep : i >= j)

\* %m: 1[0-2] | 0[1-9] | [1-9]
MonthToken(t) ==
    \/ Len(t) = 2 /\ t[1] = "1" /\ t[2] \in {"0", "1", "2"}
    \/ Len(t) = 2 /\ t[1] = "0" /\ IsDigit(t[2]) /\ t[2] # "0"
    \/ Len(t) = 1 /\ IsDigit(t[1]) /\ t[1] # "0"

\* %d: 3[0-1] | [1-2]\d | 0[1-9] | [1-9] | " "[1-9]
DayToken(t) ==
    \/ Len(t) = 2 /\ t[1] = "3" /\ t[2] \in {"0", "1"}
    \/ Len(t) = 2 /\ t[1] \in {"1", "2"} /\ IsDigit(t[2])
    \/ Len(t) = 2 /\ t[1] \in {"0", " "} /\ IsDigit(t[2]) /\ t[2] # "0"
    \/ Len(t) = 1 /\ IsDigit(t[1]) /\ t[1] # "0"

\* The date parsed, or 0 when strptime raises ValueError.
Strptime(s) ==
    IF \E ml \in {1, 2} :
          /\ Len(s) \in {7 + ml, 8 + ml}
          /\ \A i \in 1..4 : IsDigit(s[i])
          /\ s[5] = "-"
          /\ MonthToken(SubSeq(s, 6, 5 + ml))
          /\ s[6 + ml] = "-"
          /\ DayToken(SubSeq(s, 7 + ml, Len(s)))
    THEN LET ml == CHOOSE k \in {1, 2} : s[6 + k] = "-"
             y  == Number(SubSeq(s, 1, 4))
             m  == Number(SubSeq(s, 6, 5 + ml))
             d  == Number(Strip(SubSeq(s, 7 + ml, Len(s))))
         IN  IF y >= 1 /\ d <= DaysInMonth(y, m) THEN Date(y, m, d) ELSE 0
    ELSE 0

ParseEntries(text) ==
    LET parts == Split(text, ",") IN
    [i \in 1..Len(parts) |-> Strptime(Strip(parts[i]))]

\* Variant: the entries that parse are kept when another one does not.
ParseCustomHolidaysKeepValid(text) ==
    IF text = <<>> THEN [list |-> <<>>, error |-> FALSE]
    ELSE LET dates == ParseEntries(text) IN
         [list |-> SelectSeq(dates, LAMBDA d : d # 0),
          error |-> \E i \in DOMAIN dates : dates[i] = 0]

\* Lines 116-121: the list, and whether st.error was called.
ParseCustomHolidays(text) ==
    IF text = <<>> THEN [list |-> <<>>, error |-> FALSE]
    ELSE LET dates == ParseEntries(text) IN
         IF \E i \in DOMAIN dates : dates[i] = 0
         THEN [list |-> <<>>, error |-> TRUE]
         ELSE [list |-> dates, error |-> FALSE]
(***************************************************************************)
(* Spec: one run of the page script (lines 106-142) on the form's values.  *)
(***************************************************************************)
Countries == {"India", "USA", "UK", "Canada", "Australia", "Singapore",
              "UAE", "Saudi Arabia", "Qatar", "Other"}

\* Line 109: the value the ISO-code field starts with.
DefaultCode(c) == IF c = "India" THEN <<"I","N">> ELSE <<"U","S">>

\* The field as left alone, or overwritten with an ISO code.
CodeInputs(c) == {DefaultCode(c), <<"A","E">>}

Two(n) == <<DigitChars[(n \div 10) + 1], DigitChars[(n % 10) + 1]>>
Iso(y, m, d) == Two(y \div 100) \o Two(y % 100) \o <<"-">> \o Two(m)
                    \o <<"-">> \o Two(d)

HolidayTexts ==
    { <<>>,
      Iso(2024, 1, 8),
      Iso(2024, 1, 8) \o <<",", " ">> \o Iso(2024, 1, 9),
      Iso(2024, 1, 8) \o <<",">> \o Iso(2024, 1, 8),
      <<"2","0","2","4","-","1","-","8">>,
      Iso(2024, 1, 8) \o <<",", " ">> \o <<"0","9","/","0","1","/","2","0","2","4">>,
      Iso(2024, 2, 30),
      Iso(2024, 1, 8) \o <<",">>,
      <<" ">> }

EmailChoices == { <<FALSE, "">>, <<TRUE, "">>, <<TRUE, "hr@example.com">> }

FormRules == {"include_weekends", "exclude_weekends_only"}

FormProviderAnswers(t) ==
    { [kind |-> "network_error", records |-> <<>>],
      [kind |-> "no_response_key", records |-> <<>>],
      [kind |-> "holidays", records |-> <<>>],
      [kind |-> "holidays", records |-> <<t>>] }

Init ==
    /\ pc = "parse"
    /\ resignation_date \in ResignationDates
    /\ notice_period \in 1..MaxNotice
    /\ country \in Countries
    /\ country_code \in CodeInputs(country)
    /\ custom_holidays_input \in HolidayTexts
    /\ company_rule \in FormRules
    /\ emailing \in EmailChoices
    /\ provider \in FormProviderAnswers(resignation_date + notice_period)
    /\ custom_holidays = <<>>
    /\ pdf_file = "none"
    /\ smtp = "unused"
    /\ LocalsIdle

FormVars == <<resignation_date, notice_period, country_code, company_rule,
              provider, country, custom_holidays_input, emailing>>
CalcVars == <<request_year, weekend_days, tentative_last_day, all_holidays,
              last_working_day>>

\* Lines 116-121.
ParseHolidays ==
    /\ pc = "parse"
    /\ LET r == ParseCustomHolidays(custom_holidays_input)
       IN  /\ custom_holidays' = r.list
           /\ messages' = IF r.error
                           THEN Append(messages,
                                       <<"error", "custom holiday format", 0>>)
                           ELSE messages
    /\ pc' = "button"
    /\ UNCHANGED <<FormVars, CalcVars, pdf_file, smtp>>

\* Lines 124-126: the button was pressed; the calculation is called.
Calculate ==
    /\ pc = "button"
    /\ pc' = "call"
    /\ UNCHANGED <<FormVars, CalcVars, custom_holidays, messages, pdf_file,
                   smtp>>

\* Line 124: the button was not pressed in this run; the footer follows.
NoCalculate ==
    /\ pc = "button"
    /\ pc' = "end"
    /\ UNCHANGED <<FormVars, CalcVars, custom_holidays, messages, pdf_file,
                   smtp>>

\* Line 127.
ShowResult ==
    /\ pc = "returned"
    /\ messages' = Append(messages,
                          <<"success", "last working day", last_working_day>>)
    /\ pc' = "pdf"
    /\ UNCHANGED <<FormVars, CalcVars, custom_holidays, pdf_file, smtp>>

\* Lines 130-131: the document is generated and offered for download.
GeneratePdf ==
    /\ pc = "pdf"
    /\ pdf_file' = "generated"
    /\ messages' = Append(messages, <<"download", "pdf", 0>>)
    /\ pc' = "email"
    /\ UNCHANGED <<FormVars, CalcVars, custom_holidays, smtp>>

\* Line 130: generate_pdf raises (lines 59-72 hold no handler, nor does the
\* caller); the exception leaves the script and the run ends there.
GeneratePdfRaises ==
    /\ pc = "pdf"
    /\ pdf_file' = "failed"
    /\ pc' = "crashed"
    /\ UNCHANGED <<FormVars, CalcVars, custom_holidays, messages, smtp>>

\* Lines 134-136, 75-93: the mail is sent.
SendEmail ==
    /\ pc = "email"
    /\ emailing[1] /\ emailing[2] # ""
    /\ smtp' = "sent"
    /\ messages' = Append(messages, <<"success", "email sent", 0>>)
    /\ pc' = "end"
    /\ UNCHANGED <<FormVars, CalcVars, custom_holidays, pdf_file>>

\* Lines 134-136, 75-95: something in send_email raises and is caught.
SendEmailFails ==
    /\ pc = "email"
    /\ emailing[1] /\ emailing[2] # ""
    /\ smtp' = "failed"
    /\ messages' = Append(messages, <<"error", "send email", 0>>)
    /\ pc' = "end"
    /\ UNCHANGED <<FormVars, CalcVars, custom_holidays, pdf_file>>

\* Lines 134-138: sending was asked for and no recipient was given.
MissingRecipient ==
    /\ pc = "email"
    /\ emailing[1] /\ emailing[2] = ""
    /\ messages' = Append(messages, <<"error", "recipient missing", 0>>)
    /\ pc' = "end"
    /\ UNCHANGED <<FormVars, CalcVars, custom_holidays, pdf_file, smtp>>

\* Line 134: sending was not asked for.
NoEmail ==
    /\ pc = "email"
    /\ ~emailing[1]
    /\ pc' = "end"
    /\ UNCHANGED <<FormVars, CalcVars, custom_holidays, messages, pdf_file,
                   smtp>>

Next ==
    \/ ParseHolidays
    \/ Calculate
    \/ NoCalculate
    \/ Enter
    \/ Advance
    \/ Return
    \/ ShowResult
    \/ GeneratePdf
    \/ GeneratePdfRaises
    \/ SendEmail
    \/ SendEmailFails
    \/ MissingRecipient
    \/ NoEmail

Spec == Init /\ [][Next]_vars
(***************************************************************************)
(* Properties of the page script (Spec) and of the provider (SpecFn).      *)
(***************************************************************************)
FetchWarning == <<"warning", "fetch", 0>>
FormatError == <<"error", "custom holiday format", 0>>

\* C5: when UAE, Saudi Arabia or Qatar is the country selected, the
\* calculation the button starts rolls forward over Friday and Saturday.
C5_SelectedCountryDecidesWeekend ==
    (weekend_days # <<>> /\ country \in {"UAE", "Saudi Arabia", "Qatar"})
        => Elements(weekend_days) = {4, 5}

\* The provider's call failed: it raised, or the body is not the documented
\* object holding response.holidays with a parsable date in every record.
ProviderFailed ==
    \/ provider.kind \in RaisingKinds \cup SilentKinds
    \/ \E i \in DOMAIN provider.records : provider.records[i] = 0

RECURSIVE RollForward(_, _, _, _)
RollForward(t, wk, hol, rule) ==
    IF (Contains(wk, (t + 6) % 7) \/ Contains(hol, t))
       /\ (rule = "exclude_weekends_only" => Contains(wk, (t + 6) % 7))
    THEN RollForward(t + 1, wk, hol, rule)
    ELSE t

\* C6: when the provider's call fails, fetch_public_holidays returns an
\* empty list and records a warning, and the calculation returns what it
\* returns for an empty fetched list (weekends and custom holidays only).
C6_FailureWarnsAndDegrades ==
    (pc \in {"loop", "returned"} /\ ProviderFailed)
        => /\ all_holidays = custom_holidays
           /\ Contains(messages, FetchWarning)
           /\ Returned => last_working_day =
                  RollForward(Tentative0, GetWeekendDays(country_code),
                              custom_holidays, company_rule)

\* C7: once the result is displayed, a failure of generate_pdf or of
\* send_email is caught where it happens and shown as an error message; it
\* does not leave the script, and the displayed result stays as it was.
C7_ExportFailuresCaught ==
    (pdf_file = "failed" \/ smtp = "failed")
        => /\ pc # "crashed"
           /\ \E i \in DOMAIN messages : messages[i][1] = "error"
                                         /\ messages[i] # FormatError
           /\ Contains(messages,
                       <<"success", "last working day", last_working_day>>)

\* C8: if some entry of the comma-separated custom-holiday text is rejected
\* by the date parser, an error message is shown, the custom holiday list
\* of the run is empty (the valid entries are dropped too), and the
\* calculation runs on the fetched holidays alone.
SomeEntryRejected ==
    /\ custom_holidays_input # <<>>
    /\ LET parts == Split(custom_holidays_input, ",")
       IN  \E i \in DOMAIN parts : Strptime(Strip(parts[i])) = 0

C8_BadEntryEmptiesCustomHolidays ==
    (pc # "parse" /\ SomeEntryRejected)
        => /\ Contains(messages, FormatError)
           /\ custom_holidays = <<>>
           /\ request_year # 0
                  => all_holidays = FetchPublicHolidays(provider).list

C8_Witness ==
    /\ pc = "pdf"
    /\ custom_holidays_input =
           Iso(2024, 1, 8) \o <<",", " ">>
               \o <<"0","9","/","0","1","/","2","0","2","4">>
    /\ provider.records = <<Date(2024, 1, 5)>>
    /\ tentative_last_day = Date(2024, 1, 8)
    /\ last_working_day = Date(2024, 1, 8)
====
